---------------------------- MODULE Spec2Model ----------------------------
(***************************************************************************)
(* Wallet custody core of the Peridot Telegram bot:                        *)
(*   - WalletEnhancedService (services/walletEnhanced.ts): passphrase      *)
(*     store, key derivation, authenticated encryption, wallet vault;      *)
(*   - RateLimiterService (services/rateLimiter.ts): per (user, action)    *)
(*     window + cooldown throttle;                                         *)
(*   - the export and write handlers of bot.ts that use them.              *)
(*                                                                         *)
(* Cryptography is idealised: scrypt and sha256 are injective              *)
(* constructors, crypto.randomBytes / ethers.Wallet.createRandom return    *)
(* values never returned before (a counter), and an AES-256-GCM blob opens *)
(* exactly under the key and the associated data it was sealed with.       *)
(***************************************************************************)
EXTENDS Integers, Sequences, FiniteSets, TLC

(***************************************************************************)
(* Bounds of the model.                                                    *)
(***************************************************************************)
MaxNonce == 6        \* random values drawn in one behaviour of the vault
TickMs == 30000      \* granularity of the simulated Date.now()
MaxTicks == 16       \* the clock stops after MaxTicks ticks
MaxPresses == 3      \* export keyboards shown and disclosures remembered per user
MaxRecords == 4      \* unchecked recordAttempt calls kept inside one window's length
AdminTickMs == 15000 \* granularity of Date.now() in a run with admin calls
MaxInflight == 2     \* eliza.executeWrite calls awaiting their answer at one time
MaxAdminTicks == 6   \* the clock of such a run stops after MaxAdminTicks ticks
MaxKeyTicks == 3     \* the clock of a run over several keys stops after MaxKeyTicks ticks
MaxKeyRecords == 4   \* attempts counted in the whole table in such a run

Users == {1, 2}

\* `passphrase?: string`: a string (the empty one included) or undefined
Undefined == "<undefined>"
Passphrases == {"", "pw-one", "pw-two"}
PassArgs == Passphrases \cup {Undefined}

\* JavaScript truthiness of an optional string argument
Truthy(x) == x # Undefined /\ x # ""

VARIABLES
    wallets,      \* WalletEnhancedService.wallets : Map<number, StoredWallet>
    passphrases,  \* WalletEnhancedService.passphrases : Map<number, UserPassphrase>
    nonce,        \* number of random values drawn so far
    issued,       \* history: what the last successful creation returned, per user
    lastOp,       \* the last vault call and what it returned
    pending,      \* the createWalletForUser call in flight, per user
    attempts,     \* RateLimiterService.attempts : Map<string, RateLimit>
    now,          \* Date.now()
    focus,        \* the (user, action) pair the requests of this run are about
    recorded,     \* history: times of the recorded attempts of the focus key
    lastCheck,    \* the canPerformAction call made in the current limiter state, if any
    overrides,    \* the entries setRateLimit has written into RateLimiterService.configs
    shadow,       \* history: the attempts table had cleanup never been called
    legacy,       \* users holding a wallet in WalletService (services/wallet.ts)
    keyboards,    \* export keyboards currently displayed, per user
    disclosed,    \* history: times at which key material was shown, per user
    inflight,     \* the eliza.executeWrite calls awaiting their answer
    lastWrite     \* how the last write request of the bot ended

vaultVars == <<wallets, passphrases, nonce, issued, lastOp, pending>>
limiterVars == <<attempts, now, focus, recorded, lastCheck, overrides, shadow>>
botVars == <<legacy, keyboards, disclosed, inflight, lastWrite>>
vars == <<wallets, passphrases, nonce, issued, lastOp, pending,
          attempts, now, focus, recorded, lastCheck, overrides, shadow,
          legacy, keyboards, disclosed, inflight, lastWrite>>

(***************************************************************************)
(* Map helpers (Map.set / Map.delete on functions with a finite domain).   *)
(***************************************************************************)
MapSet(m, k, v) == [x \in DOMAIN m \cup {k} |-> IF x = k THEN v ELSE m[x]]
MapDelete(m, k) == [x \in DOMAIN m \ {k} |-> m[x]]

(***************************************************************************)
(* Idealised primitives.                                                   *)
(***************************************************************************)
\* crypto.randomBytes(n): the i-th random value of the run
RandomBytes(i) == <<"rand", i>>
\* sha256(`user_${userId}_salt`)
FallbackSalt(userId) == <<"sha256", userId>>
\* a string secret: a passphrase, or `user_${userId}`
PassSecret(p) == <<p, 0>>
FallbackSecret(userId) == <<"user_", userId>>
\* scrypt(secret, salt, keylen): deterministic and injective
scrypt(secret, salt, keylen) == [secret |-> secret, salt |-> salt, keylen |-> keylen]

Null == <<"null", 0>>
Thrown(msg) == [thrown |-> TRUE, msg |-> msg, value |-> Null]
Returned(v) == [thrown |-> FALSE, msg |-> "", value |-> v]

\* kdfParams.keylen
keylen == 32
\* length of the verification hash in setUserPassphrase / verifyPassphrase
hashlen == 64

(***************************************************************************)
(* Passphrase store.                                                       *)
(***************************************************************************)
\* the record setUserPassphrase stores, with the salt drawn as random value i
PassphraseRecord(userId, passphrase, i) ==
    [userId |-> userId,
     hashedPassphrase |-> scrypt(PassSecret(passphrase), RandomBytes(i), hashlen),
     salt |-> RandomBytes(i)]

verifyPassphrase(pp, userId, passphrase) ==
    IF userId \notin DOMAIN pp THEN FALSE
    ELSE scrypt(PassSecret(passphrase), pp[userId].salt, hashlen)
            = pp[userId].hashedPassphrase

(***************************************************************************)
(* Key derivation and authenticated encryption.                            *)
(***************************************************************************)
\* deriveKey that derives from the passphrase without verifying it
deriveKey_unverified(pp, userId, passphrase) ==
    IF userId \in DOMAIN pp /\ Truthy(passphrase)
    THEN Returned(scrypt(PassSecret(passphrase), pp[userId].salt, keylen))
    ELSE Returned(scrypt(FallbackSecret(userId), FallbackSalt(userId), keylen))

\* deriveKey that derives from a passphrase argument also when the user
\* has no passphrase record
deriveKey_passphraseWithoutRecord(pp, userId, passphrase) ==
    IF Truthy(passphrase)
    THEN IF userId \in DOMAIN pp
         THEN IF ~verifyPassphrase(pp, userId, passphrase)
              THEN Thrown("Invalid passphrase")
              ELSE Returned(scrypt(PassSecret(passphrase), pp[userId].salt, keylen))
         ELSE Returned(scrypt(PassSecret(passphrase), FallbackSalt(userId), keylen))
    ELSE Returned(scrypt(FallbackSecret(userId), FallbackSalt(userId), keylen))

\* deriveKey that never uses the passphrase
deriveKey_fallbackOnly(pp, userId, passphrase) ==
    Returned(scrypt(FallbackSecret(userId), FallbackSalt(userId), keylen))

\* deriveKey whose passphrase key is salted by the user id, not by the
\* salt of the passphrase record
deriveKey_userSalt(pp, userId, passphrase) ==
    IF userId \in DOMAIN pp /\ Truthy(passphrase)
    THEN IF ~verifyPassphrase(pp, userId, passphrase)
         THEN Thrown("Invalid passphrase")
         ELSE Returned(scrypt(PassSecret(passphrase), FallbackSalt(userId), keylen))
    ELSE Returned(scrypt(FallbackSecret(userId), FallbackSalt(userId), keylen))

deriveKey(pp, userId, passphrase) ==
    IF userId \in DOMAIN pp /\ Truthy(passphrase)
    THEN IF ~verifyPassphrase(pp, userId, passphrase)
         THEN Thrown("Invalid passphrase")
         ELSE Returned(scrypt(PassSecret(passphrase), pp[userId].salt, keylen))
    ELSE Returned(scrypt(FallbackSecret(userId), FallbackSalt(userId), keylen))

\* createCipher("aes-256-gcm", key) + setAAD(salt): the blob and its salt;
\* i is the index of the random salt, the (unused) random iv is i as well
Seal(plaintext, key, i) ==
    [encrypted |-> [iv |-> i, key |-> key, aad |-> RandomBytes(i), pt |-> plaintext],
     salt |-> RandomBytes(i)]

encryptPrivateKey(pp, privateKey, userId, passphrase, i) ==
    LET k == deriveKey(pp, userId, passphrase)
    IN  IF k.thrown THEN [thrown |-> TRUE, msg |-> k.msg]
        ELSE [thrown |-> FALSE, msg |-> ""] @@ Seal(privateKey, k.value, i)

\* a decipher that authenticates the key and not the associated data
Open_ignoresSalt(blob, key, salt) ==
    IF blob.key = key
    THEN Returned(blob.pt)
    ELSE Thrown("Unsupported state or unable to authenticate data")

\* a decipher whose tag is never verified: a wrong key or wrong associated
\* data gives some other string
Open_unauthenticated(blob, key, salt) ==
    IF blob.key = key /\ blob.aad = salt
    THEN Returned(blob.pt)
    ELSE Returned(<<"garbage", blob.iv>>)

\* createDecipher + setAAD(salt) + setAuthTag: final() throws unless the key
\* and the associated data are the ones of the sealing
Open(blob, key, salt) ==
    IF blob.key = key /\ blob.aad = salt
    THEN Returned(blob.pt)
    ELSE Thrown("Unsupported state or unable to authenticate data")

decryptPrivateKey(pp, encryptedData, salt, userId, passphrase) ==
    LET k == deriveKey(pp, userId, passphrase)
    IN  IF k.thrown THEN Thrown(k.msg)
        ELSE Open(encryptedData, k.value, salt)

(***************************************************************************)
(* Wallet vault.                                                           *)
(***************************************************************************)
\* ethers.Wallet.createRandom(): the i-th random value as key material
generateWallet(i) ==
    [address |-> <<"addr", i>>, privateKey |-> <<"pk", i>>, mnemonic |-> <<"mn", i>>]

\* createWalletForUser that keeps the salt of the mnemonic sealing
StoredWalletFor_mnemonicSalt(pp, userId, passphrase, i) ==
    LET wallet == generateWallet(i)
        encryptedPrivateKey ==
            encryptPrivateKey(pp, wallet.privateKey, userId, passphrase, i + 1)
        encryptedMnemonic ==
            encryptPrivateKey(pp, wallet.mnemonic, userId, passphrase, i + 2)
    IN  IF encryptedPrivateKey.thrown \/ encryptedMnemonic.thrown
        THEN [thrown |-> TRUE]
        ELSE [thrown |-> FALSE,
              record |-> [address |-> wallet.address,
                          encryptedPrivateKey |-> encryptedPrivateKey.encrypted,
                          encryptedMnemonic |-> encryptedMnemonic.encrypted,
                          salt |-> encryptedMnemonic.salt,
                          kdfParams |-> keylen,
                          userId |-> userId,
                          hasPassphrase |-> Truthy(passphrase)]]

\* the record createWalletForUser stores; thrown when deriveKey throws
StoredWalletFor(pp, userId, passphrase, i) ==
    LET wallet == generateWallet(i)
        encryptedPrivateKey ==
            encryptPrivateKey(pp, wallet.privateKey, userId, passphrase, i + 1)
        encryptedMnemonic ==
            encryptPrivateKey(pp, wallet.mnemonic, userId, passphrase, i + 2)
    IN  IF encryptedPrivateKey.thrown \/ encryptedMnemonic.thrown
        THEN [thrown |-> TRUE]
        ELSE [thrown |-> FALSE,
              record |-> [address |-> wallet.address,
                          encryptedPrivateKey |-> encryptedPrivateKey.encrypted,
                          encryptedMnemonic |-> encryptedMnemonic.encrypted,
                          salt |-> encryptedPrivateKey.salt,
                          kdfParams |-> keylen,
                          userId |-> userId,
                          hasPassphrase |-> Truthy(passphrase)]]

\* the record createWalletForUser stores when the passphrase table is pp1
\* at its first encryptPrivateKey call and pp2 at its second
StoredWalletAt(pp1, pp2, userId, passphrase, i) ==
    LET wallet == generateWallet(i)
        encryptedPrivateKey ==
            encryptPrivateKey(pp1, wallet.privateKey, userId, passphrase, i + 1)
        encryptedMnemonic ==
            encryptPrivateKey(pp2, wallet.mnemonic, userId, passphrase, i + 2)
    IN  IF encryptedPrivateKey.thrown \/ encryptedMnemonic.thrown
        THEN [thrown |-> TRUE]
        ELSE [thrown |-> FALSE,
              record |-> [address |-> wallet.address,
                          encryptedPrivateKey |-> encryptedPrivateKey.encrypted,
                          encryptedMnemonic |-> encryptedMnemonic.encrypted,
                          salt |-> encryptedPrivateKey.salt,
                          kdfParams |-> keylen,
                          userId |-> userId,
                          hasPassphrase |-> Truthy(passphrase)]]

\* what getPrivateKey returns in a state (null on every failure)
getPrivateKey(ws, pp, userId, passphrase) ==
    IF userId \notin DOMAIN ws THEN Null
    ELSE LET r == decryptPrivateKey(pp, ws[userId].encryptedPrivateKey,
                                    ws[userId].salt, userId, passphrase)
         IN  IF r.thrown THEN Null ELSE r.value

getMnemonic(ws, pp, userId, passphrase) ==
    IF userId \notin DOMAIN ws THEN Null
    ELSE LET r == decryptPrivateKey(pp, ws[userId].encryptedMnemonic,
                                    ws[userId].salt, userId, passphrase)
         IN  IF r.thrown THEN Null ELSE r.value

\* wallet?.hasPassphrase || false
hasPassphrase(ws, userId) ==
    IF userId \in DOMAIN ws THEN ws[userId].hasPassphrase ELSE FALSE

hasWallet(ws, userId) == userId \in DOMAIN ws

\* this.wallets.get(userId) || null: the stored record itself
getUserWallet(ws, userId) == IF hasWallet(ws, userId) THEN ws[userId] ELSE Null

\* the counts of getStats that do not depend on the creation date
getStats(ws) ==
    [totalWallets |-> Cardinality(DOMAIN ws),
     walletsWithPassphrase |-> Cardinality({u \in DOMAIN ws : ws[u].hasPassphrase})]

\* why a getPrivateKey / getMnemonic call fails, "" when it does not
\* (secret is "privateKey" for getPrivateKey and "mnemonic" for getMnemonic)
FailureKind(ws, pp, secret, userId, passphrase) ==
    IF userId \notin DOMAIN ws THEN "NotFound"
    ELSE LET k == deriveKey(pp, userId, passphrase)
             blob == IF secret = "privateKey" THEN ws[userId].encryptedPrivateKey
                     ELSE ws[userId].encryptedMnemonic
         IN  IF k.thrown THEN "InvalidPassphrase"
             ELSE IF Open(blob, k.value, ws[userId].salt).thrown
                  THEN "DecryptionFailure"
                  ELSE ""

Op(op, userId, passphrase, thrown, ret, flag) ==
    [op |-> op, user |-> userId, pass |-> passphrase, thrown |-> thrown,
     ret |-> ret, flag |-> flag]

\* no createWalletForUser call of the user is in flight
NoPending == [stage |-> 0]

NoIssue == [privateKey |-> Null, mnemonic |-> Null, pass |-> Undefined,
            ppSalt |-> Null, valid |-> FALSE]

\* setUserPassphrase that also raises the flag of the stored wallet
SetUserPassphrase_flagsWallet(userId, passphrase) ==
    /\ nonce + 1 <= MaxNonce
    /\ nonce' = nonce + 1
    /\ passphrases' = MapSet(passphrases, userId,
                             PassphraseRecord(userId, passphrase, nonce + 1))
    /\ wallets' = [u \in DOMAIN wallets |->
                      IF u = userId THEN [wallets[u] EXCEPT !.hasPassphrase = TRUE]
                      ELSE wallets[u]]
    /\ lastOp' = Op("setUserPassphrase", userId, passphrase, FALSE, Null, FALSE)
    /\ UNCHANGED <<issued, pending, limiterVars, botVars>>

\* setUserPassphrase that keeps the record a user already has
SetUserPassphrase_keepsFirst(userId, passphrase) ==
    /\ nonce + 1 <= MaxNonce
    /\ nonce' = nonce + 1
    /\ passphrases' = IF userId \in DOMAIN passphrases THEN passphrases
                      ELSE MapSet(passphrases, userId,
                               PassphraseRecord(userId, passphrase, nonce + 1))
    /\ lastOp' = Op("setUserPassphrase", userId, passphrase, FALSE, Null, FALSE)
    /\ UNCHANGED <<wallets, issued, pending, limiterVars, botVars>>

SetUserPassphrase(userId, passphrase) ==
    /\ nonce + 1 <= MaxNonce
    /\ nonce' = nonce + 1
    /\ passphrases' = MapSet(passphrases, userId,
                             PassphraseRecord(userId, passphrase, nonce + 1))
    /\ lastOp' = Op("setUserPassphrase", userId, passphrase, FALSE, Null, FALSE)
    /\ UNCHANGED <<wallets, issued, pending, limiterVars, botVars>>

VerifyPassphrase(userId, passphrase) ==
    /\ lastOp' = Op("verifyPassphrase", userId, passphrase, FALSE, Null,
                    verifyPassphrase(passphrases, userId, passphrase))
    /\ UNCHANGED <<wallets, passphrases, nonce, issued, pending, limiterVars, botVars>>

CreateWalletForUser(userId, passphrase) ==
    LET s == StoredWalletFor(passphrases, userId, passphrase, nonce + 1)
        w == generateWallet(nonce + 1)
    IN  /\ nonce + 3 <= MaxNonce
        /\ IF s.thrown
           THEN /\ nonce' = nonce + 1
                /\ lastOp' = Op("createWalletForUser", userId, passphrase,
                                TRUE, Null, userId \in DOMAIN wallets)
                /\ UNCHANGED <<wallets, issued>>
           ELSE /\ nonce' = nonce + 3
                /\ wallets' = MapSet(wallets, userId, s.record)
                /\ issued' = [issued EXCEPT ![userId] =
                      [privateKey |-> w.privateKey, mnemonic |-> w.mnemonic,
                       pass |-> passphrase,
                       ppSalt |-> IF userId \in DOMAIN passphrases
                                  THEN passphrases[userId].salt ELSE Null,
                       valid |-> TRUE]]
                /\ lastOp' = Op("createWalletForUser", userId, passphrase,
                                FALSE, w.privateKey, userId \in DOMAIN wallets)
        /\ UNCHANGED <<passphrases, pending, limiterVars, botVars>>

\* the part of the passphrase table a call for userId reads
Snapshot(pp, userId) == [k \in DOMAIN pp \cap {userId} |-> pp[k]]

\* createWalletForUser up to its first suspension: the wallet is generated
\* and the first encryptPrivateKey call reads the passphrase table
CreateBegin(userId, passphrase) ==
    /\ pending[userId].stage = 0
    /\ nonce + 3 <= MaxNonce
    /\ IF deriveKey(passphrases, userId, passphrase).thrown
       THEN /\ nonce' = nonce + 1
            /\ lastOp' = Op("createWalletForUser", userId, passphrase,
                            TRUE, Null, userId \in DOMAIN wallets)
            /\ UNCHANGED pending
       ELSE /\ nonce' = nonce + 3
            /\ pending' = [pending EXCEPT ![userId] =
                              [stage |-> 1, pass |-> passphrase,
                               base |-> nonce + 1,
                               pp1 |-> Snapshot(passphrases, userId)]]
            /\ UNCHANGED lastOp
    /\ UNCHANGED <<wallets, passphrases, issued, limiterVars, botVars>>

\* the first blob is sealed and the second encryptPrivateKey call reads
\* the passphrase table
CreateSecond(userId) ==
    /\ pending[userId].stage = 1
    /\ IF deriveKey(passphrases, userId, pending[userId].pass).thrown
       THEN /\ pending' = [pending EXCEPT ![userId] = NoPending]
            /\ lastOp' = Op("createWalletForUser", userId, pending[userId].pass,
                            TRUE, Null, userId \in DOMAIN wallets)
       ELSE /\ pending' = [pending EXCEPT ![userId] =
                              [stage |-> 2, pass |-> pending[userId].pass,
                               base |-> pending[userId].base,
                               pp1 |-> pending[userId].pp1,
                               pp2 |-> Snapshot(passphrases, userId)]]
            /\ UNCHANGED lastOp
    /\ UNCHANGED <<wallets, passphrases, nonce, issued, limiterVars, botVars>>

\* the second blob is sealed, the record is stored and the call returns
CreateFinish(userId) ==
    /\ pending[userId].stage = 2
    /\ LET p == pending[userId]
           s == StoredWalletAt(p.pp1, p.pp2, userId, p.pass, p.base)
           w == generateWallet(p.base)
       IN  /\ wallets' = MapSet(wallets, userId, s.record)
           /\ issued' = [issued EXCEPT ![userId] =
                 [privateKey |-> w.privateKey, mnemonic |-> w.mnemonic,
                  pass |-> p.pass,
                  ppSalt |-> IF userId \in DOMAIN p.pp1
                             THEN p.pp1[userId].salt ELSE Null,
                  valid |-> TRUE]]
           /\ lastOp' = Op("createWalletForUser", userId, p.pass,
                           FALSE, w.privateKey, userId \in DOMAIN wallets)
    /\ pending' = [pending EXCEPT ![userId] = NoPending]
    /\ UNCHANGED <<passphrases, nonce, limiterVars, botVars>>

GetPrivateKey(userId, passphrase) ==
    /\ lastOp' = Op("getPrivateKey", userId, passphrase, FALSE,
                    getPrivateKey(wallets, passphrases, userId, passphrase), FALSE)
    /\ UNCHANGED <<wallets, passphrases, nonce, issued, pending, limiterVars, botVars>>

GetMnemonic(userId, passphrase) ==
    /\ lastOp' = Op("getMnemonic", userId, passphrase, FALSE,
                    getMnemonic(wallets, passphrases, userId, passphrase), FALSE)
    /\ UNCHANGED <<wallets, passphrases, nonce, issued, pending, limiterVars, botVars>>

\* removeWallet that empties the passphrase table
RemoveWallet_clearsPassphrases(userId) ==
    /\ wallets' = MapDelete(wallets, userId)
    /\ passphrases' = << >>
    /\ issued' = [issued EXCEPT ![userId] = NoIssue]
    /\ lastOp' = Op("removeWallet", userId, Undefined, FALSE, Null,
                    userId \in DOMAIN wallets)
    /\ UNCHANGED <<nonce, pending, limiterVars, botVars>>

GetUserWallet(userId) ==
    /\ lastOp' = Op("getUserWallet", userId, Undefined, FALSE,
                    IF ~hasWallet(wallets, userId) THEN Null
                    ELSE <<"wallet", getUserWallet(wallets, userId)>>, FALSE)
    /\ UNCHANGED <<wallets, passphrases, nonce, issued, pending, limiterVars, botVars>>

HasWallet(userId) ==
    /\ lastOp' = Op("hasWallet", userId, Undefined, FALSE, Null,
                    hasWallet(wallets, userId))
    /\ UNCHANGED <<wallets, passphrases, nonce, issued, pending, limiterVars, botVars>>

HasPassphrase(userId) ==
    /\ lastOp' = Op("hasPassphrase", userId, Undefined, FALSE, Null,
                    hasPassphrase(wallets, userId))
    /\ UNCHANGED <<wallets, passphrases, nonce, issued, pending, limiterVars, botVars>>

GetStats ==
    /\ lastOp' = Op("getStats", 0, Undefined, FALSE,
                    <<"stats", getStats(wallets)>>, FALSE)
    /\ UNCHANGED <<wallets, passphrases, nonce, issued, pending, limiterVars, botVars>>

\* removeWallet that reports the deletion of either record
removeWalletResult_either(ws, pp, userId) ==
    userId \in DOMAIN ws \/ userId \in DOMAIN pp

\* the value removeWallet returns
removeWalletResult(ws, pp, userId) == userId \in DOMAIN ws

RemoveWallet(userId) ==
    /\ wallets' = MapDelete(wallets, userId)
    /\ passphrases' = MapDelete(passphrases, userId)
    /\ issued' = [issued EXCEPT ![userId] = NoIssue]
    /\ lastOp' = Op("removeWallet", userId, Undefined, FALSE, Null,
                    removeWalletResult(wallets, passphrases, userId))
    /\ UNCHANGED <<nonce, pending, limiterVars, botVars>>

VaultInit ==
    /\ wallets = << >>
    /\ passphrases = << >>
    /\ nonce = 0
    /\ issued = [u \in Users |-> NoIssue]
    /\ pending = [u \in Users |-> NoPending]
    /\ lastOp = Op("new", 0, Undefined, FALSE, Null, FALSE)

(***************************************************************************)
(* Rate limiter.                                                           *)
(***************************************************************************)
\* RateLimiterService.configs; cooldownMs 0 stands for an absent cooldownMs
\* (both are falsy in `config.cooldownMs && ...` and `!config.cooldownMs`)
Cfg(w, m, c) == [windowMs |-> w, maxAttempts |-> m, cooldownMs |-> c]

\* the table the constructor builds
defaultConfigs ==
    [a \in {"supply", "borrow", "repay", "redeem", "claim", "approve",
            "export_private_key", "export_mnemonic",
            "position", "markets", "balance"} |->
        CASE a = "supply" -> Cfg(60000, 3, 30000)
          [] a = "borrow" -> Cfg(60000, 3, 30000)
          [] a = "repay" -> Cfg(60000, 5, 15000)
          [] a = "redeem" -> Cfg(60000, 5, 15000)
          [] a = "claim" -> Cfg(300000, 2, 60000)
          [] a = "approve" -> Cfg(180000, 3, 30000)
          [] a = "export_private_key" -> Cfg(300000, 2, 120000)
          [] a = "export_mnemonic" -> Cfg(300000, 2, 120000)
          [] a = "position" -> Cfg(60000, 10, 0)
          [] a = "markets" -> Cfg(60000, 15, 0)
          [] a = "balance" -> Cfg(60000, 10, 0)]

\* this.configs: the default table with the entries setRateLimit has written
configs == overrides @@ defaultConfigs

Configured == DOMAIN configs
\* the action names requests are made for: the ones configured at
\* construction and one that has no entry in configs
Actions == DOMAIN defaultConfigs \cup {"help"}

\* `${userId}:${action}`
Key(userId, action) == <<userId, action>>

Verdict(allowed, reason, remaining, resetTime, cooldownUntil) ==
    [allowed |-> allowed, reason |-> reason, remainingAttempts |-> remaining,
     resetTime |-> resetTime, cooldownUntil |-> cooldownUntil]

\* canPerformAction whose cooldown starts only once the limit is hit
canPerformAction_cooldownAtLimitOnly(att, userId, action, t) ==
    IF action \notin Configured
    THEN Verdict(TRUE, "unconfigured", -1, -1, -1)
    ELSE LET config == configs[action]
             key == Key(userId, action)
         IN  IF key \notin DOMAIN att
             THEN Verdict(TRUE, "first", config.maxAttempts - 1,
                          t + config.windowMs, -1)
             ELSE LET limit == att[key]
                  IN  IF config.cooldownMs # 0
                         /\ limit.count >= config.maxAttempts
                         /\ limit.lastAttempt + config.cooldownMs > t
                      THEN Verdict(FALSE, "cooldown", -1, -1,
                                   limit.lastAttempt + config.cooldownMs)
                      ELSE IF t - limit.windowStart > config.windowMs
                      THEN Verdict(TRUE, "expired", config.maxAttempts - 1,
                                   t + config.windowMs, -1)
                      ELSE IF limit.count >= config.maxAttempts
                      THEN Verdict(FALSE, "limit", -1,
                                   limit.windowStart + config.windowMs, -1)
                      ELSE Verdict(TRUE, "within",
                                   config.maxAttempts - limit.count - 1,
                                   limit.windowStart + config.windowMs, -1)

\* canPerformAction that looks at the count before it looks at the age of
\* the window
canPerformAction_limitBeforeExpiry(att, userId, action, t) ==
    IF action \notin Configured
    THEN Verdict(TRUE, "unconfigured", -1, -1, -1)
    ELSE LET config == configs[action]
             key == Key(userId, action)
         IN  IF key \notin DOMAIN att
             THEN Verdict(TRUE, "first", config.maxAttempts - 1,
                          t + config.windowMs, -1)
             ELSE LET limit == att[key]
                  IN  IF config.cooldownMs # 0
                         /\ limit.lastAttempt + config.cooldownMs > t
                      THEN Verdict(FALSE, "cooldown", -1, -1,
                                   limit.lastAttempt + config.cooldownMs)
                      ELSE IF limit.count >= config.maxAttempts
                      THEN Verdict(FALSE, "limit", -1,
                                   limit.windowStart + config.windowMs, -1)
                      ELSE IF t - limit.windowStart > config.windowMs
                      THEN Verdict(TRUE, "expired", config.maxAttempts - 1,
                                   t + config.windowMs, -1)
                      ELSE Verdict(TRUE, "within",
                                   config.maxAttempts - limit.count - 1,
                                   limit.windowStart + config.windowMs, -1)

\* canPerformAction that denies only above maxAttempts
canPerformAction_offByOne(att, userId, action, t) ==
    IF action \notin Configured
    THEN Verdict(TRUE, "unconfigured", -1, -1, -1)
    ELSE LET config == configs[action]
             key == Key(userId, action)
         IN  IF key \notin DOMAIN att
             THEN Verdict(TRUE, "first", config.maxAttempts - 1,
                          t + config.windowMs, -1)
             ELSE LET limit == att[key]
                  IN  IF config.cooldownMs # 0
                         /\ limit.lastAttempt + config.cooldownMs > t
                      THEN Verdict(FALSE, "cooldown", -1, -1,
                                   limit.lastAttempt + config.cooldownMs)
                      ELSE IF t - limit.windowStart > config.windowMs
                      THEN Verdict(TRUE, "expired", config.maxAttempts - 1,
                                   t + config.windowMs, -1)
                      ELSE IF limit.count > config.maxAttempts
                      THEN Verdict(FALSE, "limit", -1,
                                   limit.windowStart + config.windowMs, -1)
                      ELSE Verdict(TRUE, "within",
                                   config.maxAttempts - limit.count - 1,
                                   limit.windowStart + config.windowMs, -1)

\* canPerformAction whose cooldown applies only once the limit is hit
canPerformAction_cooldownAfterLimit(att, userId, action, t) ==
    IF action \notin Configured
    THEN Verdict(TRUE, "unconfigured", -1, -1, -1)
    ELSE LET config == configs[action]
             key == Key(userId, action)
         IN  IF key \notin DOMAIN att
             THEN Verdict(TRUE, "first", config.maxAttempts - 1,
                          t + config.windowMs, -1)
             ELSE LET limit == att[key]
                  IN  IF config.cooldownMs # 0
                         /\ limit.count >= config.maxAttempts
                         /\ limit.lastAttempt + config.cooldownMs > t
                      THEN Verdict(FALSE, "cooldown", -1, -1,
                                   limit.lastAttempt + config.cooldownMs)
                      ELSE IF t - limit.windowStart > config.windowMs
                      THEN Verdict(TRUE, "expired", config.maxAttempts - 1,
                                   t + config.windowMs, -1)
                      ELSE IF limit.count >= config.maxAttempts
                      THEN Verdict(FALSE, "limit", -1,
                                   limit.windowStart + config.windowMs, -1)
                      ELSE Verdict(TRUE, "within",
                                   config.maxAttempts - limit.count - 1,
                                   limit.windowStart + config.windowMs, -1)

\* canPerformAction at time t; a field the code leaves undefined is -1
canPerformAction(att, userId, action, t) ==
    IF action \notin Configured
    THEN Verdict(TRUE, "unconfigured", -1, -1, -1)
    ELSE LET config == configs[action]
             key == Key(userId, action)
         IN  IF key \notin DOMAIN att
             THEN Verdict(TRUE, "first", config.maxAttempts - 1,
                          t + config.windowMs, -1)
             ELSE LET limit == att[key]
                  IN  IF config.cooldownMs # 0
                         /\ limit.lastAttempt + config.cooldownMs > t
                      THEN Verdict(FALSE, "cooldown", -1, -1,
                                   limit.lastAttempt + config.cooldownMs)
                      ELSE IF t - limit.windowStart > config.windowMs
                      THEN Verdict(TRUE, "expired", config.maxAttempts - 1,
                                   t + config.windowMs, -1)
                      ELSE IF limit.count >= config.maxAttempts
                      THEN Verdict(FALSE, "limit", -1,
                                   limit.windowStart + config.windowMs, -1)
                      ELSE Verdict(TRUE, "within",
                                   config.maxAttempts - limit.count - 1,
                                   limit.windowStart + config.windowMs, -1)

\* recordAttempt that never starts a new window for an existing entry
recordAttempt_neverExpires(att, userId, action, t) ==
    IF action \notin Configured THEN att
    ELSE LET key == Key(userId, action)
         IN  IF key \notin DOMAIN att
             THEN MapSet(att, key, [userId |-> userId, action |-> action,
                                    count |-> 1, windowStart |-> t,
                                    lastAttempt |-> t])
             ELSE [att EXCEPT ![key].count = @ + 1, ![key].lastAttempt = t]

\* recordAttempt that does not count the attempts of a running window
recordAttempt_noIncrement(att, userId, action, t) ==
    IF action \notin Configured THEN att
    ELSE LET config == configs[action]
             key == Key(userId, action)
         IN  IF key \notin DOMAIN att
                \/ t - att[key].windowStart > config.windowMs
             THEN MapSet(att, key, [userId |-> userId, action |-> action,
                                    count |-> 1, windowStart |-> t,
                                    lastAttempt |-> t])
             ELSE [att EXCEPT ![key].lastAttempt = t]

\* recordAttempt that moves the window along with every attempt
recordAttempt_slidesWindow(att, userId, action, t) ==
    IF action \notin Configured THEN att
    ELSE MapSet(att, Key(userId, action),
                [userId |-> userId, action |-> action,
                 count |-> IF Key(userId, action) \notin DOMAIN att
                              \/ t - att[Key(userId, action)].windowStart
                                     > configs[action].windowMs
                           THEN 1 ELSE att[Key(userId, action)].count + 1,
                 windowStart |-> t, lastAttempt |-> t])

\* recordAttempt that opens an entry for an action without a configuration
recordAttempt_unconfigured(att, userId, action, t) ==
    LET key == Key(userId, action)
        fresh == [userId |-> userId, action |-> action, count |-> 1,
                  windowStart |-> t, lastAttempt |-> t]
    IN  IF action \notin Configured
        THEN IF key \in DOMAIN att
             THEN [att EXCEPT ![key].count = @ + 1, ![key].lastAttempt = t]
             ELSE MapSet(att, key, fresh)
        ELSE IF key \notin DOMAIN att
                \/ t - att[key].windowStart > configs[action].windowMs
        THEN MapSet(att, key, fresh)
        ELSE [att EXCEPT ![key].count = @ + 1, ![key].lastAttempt = t]

\* the attempts table after recordAttempt at time t
recordAttempt(att, userId, action, t) ==
    IF action \notin Configured THEN att
    ELSE LET config == configs[action]
             key == Key(userId, action)
         IN  IF key \notin DOMAIN att
                \/ t - att[key].windowStart > config.windowMs
             THEN MapSet(att, key, [userId |-> userId, action |-> action,
                                    count |-> 1, windowStart |-> t,
                                    lastAttempt |-> t])
             ELSE [att EXCEPT ![key].count = @ + 1, ![key].lastAttempt = t]

\* getStatus(userId, action); a field that is undefined is -1
getStatus(att, userId, action) ==
    IF action \notin Configured
    THEN [hasLimit |-> FALSE, currentCount |-> -1, maxAttempts |-> -1,
          windowStart |-> -1, windowEnd |-> -1, lastAttempt |-> -1]
    ELSE LET config == configs[action]
             key == Key(userId, action)
         IN  IF key \notin DOMAIN att
             THEN [hasLimit |-> TRUE, currentCount |-> 0,
                   maxAttempts |-> config.maxAttempts,
                   windowStart |-> -1, windowEnd |-> -1, lastAttempt |-> -1]
             ELSE LET limit == att[key]
                  IN  [hasLimit |-> TRUE, currentCount |-> limit.count,
                       maxAttempts |-> config.maxAttempts,
                       windowStart |-> limit.windowStart,
                       windowEnd |-> limit.windowStart + config.windowMs,
                       lastAttempt |-> limit.lastAttempt]

\* cleanup that takes an entry at the very end of its window and cooldown
cleanup_atBoundary(att, t) ==
    LET expired(key) ==
            LET limit == att[key]
                config == configs[limit.action]
                windowExpired == t - limit.windowStart >= config.windowMs
                cooldownExpired == config.cooldownMs = 0
                                   \/ t - limit.lastAttempt >= config.cooldownMs
            IN  limit.action \in Configured /\ windowExpired /\ cooldownExpired
    IN  [key \in {k \in DOMAIN att : ~expired(k)} |-> att[key]]

\* cleanup that looks at the window only and not at the cooldown
cleanup_windowOnly(att, t) ==
    LET expired(key) ==
            LET limit == att[key]
                config == configs[limit.action]
            IN  limit.action \in Configured
                /\ t - limit.windowStart > config.windowMs
    IN  [key \in {k \in DOMAIN att : ~expired(k)} |-> att[key]]

\* the attempts table after cleanup at time t
cleanup(att, t) ==
    LET expired(key) ==
            LET limit == att[key]
                config == configs[limit.action]
                windowExpired == t - limit.windowStart > config.windowMs
                cooldownExpired == config.cooldownMs = 0
                                   \/ t - limit.lastAttempt > config.cooldownMs
            IN  limit.action \in Configured /\ windowExpired /\ cooldownExpired
    IN  [key \in {k \in DOMAIN att : ~expired(k)} |-> att[key]]

NoCheck == [user |-> 0, action |-> "", at |-> 0,
            verdict |-> Verdict(TRUE, "", -1, -1, -1)]

\* the recorded times still inside a window's length before time t
Recent(times, action, t) ==
    IF action \notin Configured THEN << >>
    ELSE SelectSeq(times, LAMBDA s : t - s <= configs[action].windowMs)

\* Date.now() advances
Tick ==
    /\ now < MaxTicks * TickMs
    /\ now' = now + TickMs
    /\ recorded' = Recent(recorded, focus[2], now')
    /\ lastCheck' = NoCheck
    /\ UNCHANGED <<attempts, focus, overrides, shadow, vaultVars, botVars>>

\* a check that starts the new window itself once the old one has run out
Check_lazyReset ==
    LET key == Key(focus[1], focus[2])
        v == canPerformAction(attempts, focus[1], focus[2], now)
    IN  /\ lastCheck' = [user |-> focus[1], action |-> focus[2], at |-> now,
                         verdict |-> v]
        /\ attempts' = IF v.reason = "expired"
                       THEN [attempts EXCEPT ![key].count = 0,
                                             ![key].windowStart = now]
                       ELSE attempts
        /\ UNCHANGED <<now, focus, recorded, overrides, shadow, vaultVars, botVars>>

\* a caller asks for a verdict and does nothing else
Check ==
    /\ lastCheck' = [user |-> focus[1], action |-> focus[2], at |-> now,
                     verdict |-> canPerformAction(attempts, focus[1], focus[2], now)]
    /\ UNCHANGED <<attempts, now, focus, recorded, overrides, shadow, vaultVars, botVars>>

\* the check-then-record protocol of a gated request
\* (canPerformAction, return when denied, otherwise recordAttempt)
Request ==
    LET v == canPerformAction(attempts, focus[1], focus[2], now)
    IN  /\ lastCheck' = [user |-> focus[1], action |-> focus[2], at |-> now,
                         verdict |-> v]
        /\ IF v.allowed
           THEN /\ attempts' = recordAttempt(attempts, focus[1], focus[2], now)
                /\ shadow' = recordAttempt(shadow, focus[1], focus[2], now)
                /\ recorded' = IF focus[2] \in Configured
                               THEN Append(recorded, now) ELSE recorded
           ELSE UNCHANGED <<attempts, shadow, recorded>>
        /\ UNCHANGED <<now, focus, overrides, vaultVars, botVars>>

\* recordAttempt called without a preceding check
RecordAttempt ==
    /\ Len(recorded) < MaxRecords
    /\ attempts' = recordAttempt(attempts, focus[1], focus[2], now)
    /\ shadow' = recordAttempt(shadow, focus[1], focus[2], now)
    /\ recorded' = Append(recorded, now)
    /\ lastCheck' = NoCheck
    /\ UNCHANGED <<now, focus, overrides, vaultVars, botVars>>

\* the periodic setInterval callback, or any other caller of cleanup
Cleanup ==
    /\ attempts' = cleanup(attempts, now)
    /\ lastCheck' = NoCheck
    /\ UNCHANGED <<now, focus, recorded, overrides, shadow, vaultVars, botVars>>

\* the attempts table after resetUserLimits(userId)
\* resetUserLimits that empties the table
resetUserLimits_everyone(att, userId) ==
    [key \in {k \in DOMAIN att : FALSE} |-> att[key]]

resetUserLimits(att, userId) ==
    [key \in {k \in DOMAIN att : att[k].userId # userId} |-> att[key]]

\* an admin empties the limits of a user
ResetUserLimits(userId) ==
    /\ attempts' = resetUserLimits(attempts, userId)
    /\ shadow' = resetUserLimits(shadow, userId)
    /\ lastCheck' = NoCheck
    /\ UNCHANGED <<now, focus, recorded, overrides, vaultVars, botVars>>

\* the attempts counted under the keys of a table
RECURSIVE CountSum(_, _)
CountSum(att, keys) ==
    IF keys = {} THEN 0
    ELSE LET k == CHOOSE x \in keys : TRUE
         IN  att[k].count + CountSum(att, keys \ {k})

\* recordAttempt(userId, action) of any user and action
RecordFor(userId, action) ==
    /\ CountSum(attempts, DOMAIN attempts) < MaxKeyRecords
    /\ Len(recorded) < MaxRecords
    /\ attempts' = recordAttempt(attempts, userId, action, now)
    /\ shadow' = recordAttempt(shadow, userId, action, now)
    /\ recorded' = IF Key(userId, action) = Key(focus[1], focus[2])
                      /\ action \in Configured
                   THEN Append(recorded, now) ELSE recorded
    /\ lastCheck' = NoCheck
    /\ UNCHANGED <<now, focus, overrides, vaultVars, botVars>>

\* Date.now() advances in a run over several keys
KeysTick ==
    /\ now < MaxKeyTicks * TickMs
    /\ now' = now + TickMs
    /\ recorded' = Recent(recorded, focus[2], now')
    /\ lastCheck' = NoCheck
    /\ UNCHANGED <<attempts, focus, overrides, shadow, vaultVars, botVars>>

\* the configurations an admin writes with setRateLimit
AdminConfigs == {Cfg(30000, 1, 0), Cfg(300000, 2, 60000)}

\* this.configs after setRateLimit(action, config), as the written entries
setRateLimit(ov, action, config) == MapSet(ov, action, config)

\* Date.now() advances in a run with admin calls
AdminTick ==
    /\ now < MaxAdminTicks * AdminTickMs
    /\ now' = now + AdminTickMs
    /\ recorded' = Recent(recorded, focus[2], now')
    /\ lastCheck' = NoCheck
    /\ UNCHANGED <<attempts, focus, overrides, shadow, vaultVars, botVars>>

\* an admin reconfigures an action
SetRateLimit(action, config) ==
    /\ overrides' = setRateLimit(overrides, action, config)
    /\ lastCheck' = NoCheck
    /\ UNCHANGED <<attempts, shadow, now, focus, recorded, vaultVars, botVars>>

LimiterInit ==
    /\ attempts = << >>
    /\ overrides = << >>
    /\ shadow = << >>
    /\ now = 0
    /\ focus \in Users \X Actions
    /\ recorded = << >>
    /\ lastCheck = NoCheck


(***************************************************************************)
(* Export handlers of bot.ts.  They use WalletService (services/wallet.ts) *)
(* for the wallet and RateLimiterService for the gate.                     *)
(***************************************************************************)
ExportAction == "export_private_key"

\* WalletService.hasWallet / getUserWallet(userId) # null
hasLegacyWallet(userId) == userId \in legacy
\* WalletService.getPrivateKey / getMnemonic: the secret, or null without wallet
legacySecret(kind, userId) == IF userId \in legacy THEN <<kind, userId>> ELSE Null

\* bot.action("create_wallet_confirm"): one wallet per user in WalletService
CreateWalletConfirm(userId) ==
    /\ ~hasLegacyWallet(userId)
    /\ legacy' = legacy \cup {userId}
    /\ UNCHANGED <<keyboards, disclosed, inflight, lastWrite, vaultVars, limiterVars>>

\* bot.command("export_wallet")
ExportWalletCommand(userId) ==
    LET limitCheck == canPerformAction(attempts, userId, ExportAction, now)
    IN  /\ keyboards[userId] + Len(disclosed[userId]) < MaxPresses
        /\ lastCheck' = [user |-> userId, action |-> ExportAction, at |-> now,
                         verdict |-> limitCheck]
        /\ keyboards' = IF limitCheck.allowed /\ hasLegacyWallet(userId)
                        THEN [keyboards EXCEPT ![userId] = @ + 1]
                        ELSE keyboards
        /\ UNCHANGED <<legacy, disclosed, inflight, lastWrite, vaultVars,
                     attempts, now, focus, recorded, overrides, shadow>>

\* bot.action("wallet_show_keys")
WalletShowKeys(userId) ==
    LET limitCheck == canPerformAction(attempts, userId, ExportAction, now)
    IN  /\ keyboards[userId] + Len(disclosed[userId]) < MaxPresses
        /\ lastCheck' = [user |-> userId, action |-> ExportAction, at |-> now,
                         verdict |-> limitCheck]
        /\ keyboards' = IF limitCheck.allowed
                        THEN [keyboards EXCEPT ![userId] = @ + 1]
                        ELSE keyboards
        /\ UNCHANGED <<legacy, disclosed, inflight, lastWrite, vaultVars,
                     attempts, now, focus, recorded, overrides, shadow>>

\* bot.action("export_private_key") and bot.action("export_mnemonic"):
\* a button of a displayed export keyboard is pressed
ExportSecret(kind, userId) ==
    LET secret == legacySecret(kind, userId)
    IN  /\ keyboards[userId] > 0
        /\ keyboards' = [keyboards EXCEPT ![userId] = @ - 1]
        /\ disclosed' = IF secret = Null THEN disclosed
                        ELSE [disclosed EXCEPT ![userId] = Append(@, now)]
        /\ UNCHANGED <<legacy, inflight, lastWrite, vaultVars, limiterVars>>

ExportPrivateKey(userId) == ExportSecret("pk", userId)

ExportMnemonic(userId) == ExportSecret("mn", userId)

\* bot.action("export_cancel")
ExportCancel(userId) ==
    /\ keyboards[userId] > 0
    /\ keyboards' = [keyboards EXCEPT ![userId] = @ - 1]
    /\ UNCHANGED <<legacy, disclosed, inflight, lastWrite, vaultVars, limiterVars>>

\* Date.now() advances while the bot runs; disclosures older than the
\* export window are dropped from the history
BotTick ==
    /\ now < MaxTicks * TickMs
    /\ now' = now + TickMs
    /\ disclosed' = [u \in Users |-> Recent(disclosed[u], ExportAction, now')]
    /\ lastCheck' = NoCheck
    /\ UNCHANGED <<legacy, keyboards, inflight, lastWrite, vaultVars,
                 attempts, focus, recorded, overrides, shadow>>

\* the actions of the write commands (/supply ... /approve)
WriteActions == {"supply", "borrow", "repay", "redeem", "claim", "approve"}

\* executeWriteWithLimits that suspends between its check and its record:
\* the verdict it acts on may be the one taken before another request of
\* the same instant was recorded
WriteRequest_staleCheck(userId) ==
    LET limitCheck == IF lastCheck.at = now /\ lastCheck.user = userId
                         /\ lastCheck.action = focus[2]
                      THEN lastCheck.verdict
                      ELSE canPerformAction(attempts, userId, focus[2], now)
        after == recordAttempt(attempts, userId, focus[2], now)
    IN  /\ lastCheck' = [user |-> userId, action |-> focus[2], at |-> now,
                         verdict |-> limitCheck]
        /\ IF ~limitCheck.allowed
           THEN /\ lastWrite' = [outcome |-> "denied", charged |-> FALSE]
                /\ UNCHANGED <<attempts, shadow, recorded, inflight>>
           ELSE IF ~hasLegacyWallet(userId)
           THEN /\ lastWrite' = [outcome |-> "nowallet", charged |-> FALSE]
                /\ UNCHANGED <<attempts, shadow, recorded, inflight>>
           ELSE /\ Len(inflight) < MaxInflight
                /\ attempts' = after
                /\ shadow' = recordAttempt(shadow, userId, focus[2], now)
                /\ recorded' = Append(recorded, now)
                /\ inflight' = Append(inflight,
                                      [user |-> userId, action |-> focus[2],
                                       charged |-> after # attempts])
                /\ lastWrite' = [outcome |-> "submitted",
                                 charged |-> after # attempts]
        /\ UNCHANGED <<now, focus, overrides, legacy, keyboards, disclosed,
                       vaultVars>>

\* executeWriteWithLimits up to its await: check, wallet lookup,
\* recordAttempt, and the relay call is started
WriteRequest(userId) ==
    LET limitCheck == canPerformAction(attempts, userId, focus[2], now)
        after == recordAttempt(attempts, userId, focus[2], now)
    IN  /\ lastCheck' = [user |-> userId, action |-> focus[2], at |-> now,
                         verdict |-> limitCheck]
        /\ IF ~limitCheck.allowed
           THEN /\ lastWrite' = [outcome |-> "denied", charged |-> FALSE]
                /\ UNCHANGED <<attempts, shadow, recorded, inflight>>
           ELSE IF ~hasLegacyWallet(userId)
           THEN /\ lastWrite' = [outcome |-> "nowallet", charged |-> FALSE]
                /\ UNCHANGED <<attempts, shadow, recorded, inflight>>
           ELSE /\ Len(inflight) < MaxInflight
                /\ attempts' = after
                /\ shadow' = recordAttempt(shadow, userId, focus[2], now)
                /\ recorded' = Append(recorded, now)
                /\ inflight' = Append(inflight,
                                      [user |-> userId, action |-> focus[2],
                                       charged |-> after # attempts])
                /\ lastWrite' = [outcome |-> "submitted",
                                 charged |-> after # attempts]
        /\ UNCHANGED <<now, focus, overrides, legacy, keyboards, disclosed,
                       vaultVars>>

\* eliza.executeWrite of the i-th call in flight resolves (ok) or throws:
\* the handler replies and returns
RelayAnswer(i, ok) ==
    /\ i \in 1..Len(inflight)
    /\ inflight' = [j \in 1..(Len(inflight) - 1) |->
                       IF j < i THEN inflight[j] ELSE inflight[j + 1]]
    /\ lastWrite' = [outcome |-> IF ok THEN "ok" ELSE "relayfail",
                     charged |-> inflight[i].charged]
    /\ UNCHANGED <<legacy, keyboards, disclosed, vaultVars, limiterVars>>

\* no write request has been made
NoWrite == [outcome |-> "", charged |-> FALSE]

BotInit ==
    /\ legacy = {}
    /\ keyboards = [u \in Users |-> 0]
    /\ disclosed = [u \in Users |-> << >>]
    /\ inflight = << >>
    /\ lastWrite = NoWrite

(***************************************************************************)
(* Specifications.                                                         *)
(***************************************************************************)
IdleLimiter ==
    /\ attempts = << >>
    /\ overrides = << >>
    /\ shadow = << >>
    /\ now = 0
    /\ focus = <<1, "help">>
    /\ recorded = << >>
    /\ lastCheck = NoCheck

\* the vault, called in any order
Init == VaultInit /\ IdleLimiter /\ BotInit

Next ==
    \/ \E u \in Users, p \in Passphrases : SetUserPassphrase(u, p)
    \/ \E u \in Users, p \in Passphrases : VerifyPassphrase(u, p)
    \/ \E u \in Users, x \in PassArgs : CreateWalletForUser(u, x)
    \/ \E u \in Users, x \in PassArgs : GetPrivateKey(u, x)
    \/ \E u \in Users, x \in PassArgs : GetMnemonic(u, x)
    \/ \E u \in Users : RemoveWallet(u)

Spec == Init /\ [][Next]_vars

\* the vault with its getters, called in any order
GettersNext ==
    \/ Next
    \/ \E u \in Users : GetUserWallet(u)
    \/ \E u \in Users : HasWallet(u)
    \/ \E u \in Users : HasPassphrase(u)
    \/ GetStats

SpecGetters == Init /\ [][GettersNext]_vars

\* the vault with the calls of createWalletForUser interleaving at its
\* suspension points with the other calls
AsyncNext ==
    \/ \E u \in Users, p \in Passphrases : SetUserPassphrase(u, p)
    \/ \E u \in Users, x \in PassArgs : CreateBegin(u, x)
    \/ \E u \in Users : CreateSecond(u)
    \/ \E u \in Users : CreateFinish(u)
    \/ \E u \in Users, x \in PassArgs : GetPrivateKey(u, x)
    \/ \E u \in Users, x \in PassArgs : GetMnemonic(u, x)
    \/ \E u \in Users : RemoveWallet(u)

SpecAsync == Init /\ [][AsyncNext]_vars

\* the limiter under the check-then-record protocol
ProtocolInit == VaultInit /\ LimiterInit /\ BotInit

ProtocolNext == Tick \/ Check \/ Request \/ Cleanup

SpecProtocol == ProtocolInit /\ [][ProtocolNext]_vars

\* the limiter with recordAttempt called freely
RecordNext == Tick \/ Check \/ RecordAttempt \/ Cleanup

SpecRecord == ProtocolInit /\ [][RecordNext]_vars

\* the limiter with its admin functions
AdminNext ==
    \/ AdminTick
    \/ Check
    \/ RecordAttempt
    \/ Cleanup
    \/ \E c \in AdminConfigs : SetRateLimit(focus[2], c)
    \/ \E u \in Users : ResetUserLimits(u)

\* the actions the runs with admin calls are about: one with a cooldown,
\* one without, one without configuration
AdminActions == {"supply", "position", "help"}

AdminInit == ProtocolInit /\ focus[2] \in AdminActions

SpecAdmin == AdminInit /\ [][AdminNext]_vars

\* the actions the runs over several keys are about: one with a cooldown,
\* one without, one without configuration
KeyActions == {"supply", "position", "help"}

\* the limiter called for every user and several actions
KeysInit == ProtocolInit /\ focus = <<1, "supply">>

KeysNext ==
    \/ KeysTick
    \/ \E u \in Users, a \in KeyActions : RecordFor(u, a)
    \/ \E u \in Users : ResetUserLimits(u)
    \/ Cleanup

SpecKeys == KeysInit /\ [][KeysNext]_vars

\* the export handlers of the bot
\* (the events of one run come from the user focus[1])
BotSpecInit ==
    /\ VaultInit /\ BotInit
    /\ attempts = << >>
    /\ overrides = << >>
    /\ shadow = << >>
    /\ now = 0
    /\ focus \in Users \X {ExportAction}
    /\ recorded = << >>
    /\ lastCheck = NoCheck

BotNext ==
    \/ CreateWalletConfirm(focus[1])
    \/ ExportWalletCommand(focus[1])
    \/ WalletShowKeys(focus[1])
    \/ ExportPrivateKey(focus[1])
    \/ ExportMnemonic(focus[1])
    \/ ExportCancel(focus[1])
    \/ BotTick

SpecBot == BotSpecInit /\ [][BotNext]_vars

\* the write commands of the bot
\* (the requests of one run come from the user focus[1] for one action)
WriteInit == ProtocolInit /\ focus[2] \in WriteActions

WriteNext ==
    \/ CreateWalletConfirm(focus[1])
    \/ WriteRequest(focus[1])
    \/ \E i \in 1..MaxInflight, ok \in BOOLEAN : RelayAnswer(i, ok)
    \/ Tick

SpecWrite == WriteInit /\ [][WriteNext]_vars


(***************************************************************************)
(* Properties.                                                             *)
(***************************************************************************)

\* C1: one wallet per user -- a createWalletForUser call for a user that
\* already has a stored WalletRecord fails and leaves the stored record
\* unchanged, so getPrivateKey still returns the first wallet's key.
C1_OneWalletPerUser ==
    [][\A u \in Users : \A x \in PassArgs :
          (u \in DOMAIN wallets /\ CreateWalletForUser(u, x))
          => /\ lastOp'.thrown
             /\ wallets'[u] = wallets[u]
             /\ \A y \in PassArgs :
                   getPrivateKey(wallets', passphrases', u, y)
                     = getPrivateKey(wallets, passphrases, u, y)]_vars

\* u set a passphrase, then created the wallet with that passphrase, and
\* neither the passphrase record nor the wallet was replaced or removed since
GatedBy(u, p) ==
    /\ u \in DOMAIN wallets
    /\ issued[u].valid
    /\ issued[u].pass = p
    /\ p \in Passphrases
    /\ u \in DOMAIN passphrases
    /\ passphrases[u].salt = issued[u].ppSalt
    /\ verifyPassphrase(passphrases, u, p)

Gating(u, p) ==
    /\ getPrivateKey(wallets, passphrases, u, Undefined) = Null
    /\ \A q \in Passphrases \ {p} : getPrivateKey(wallets, passphrases, u, q) = Null
    /\ getPrivateKey(wallets, passphrases, u, p) = issued[u].privateKey

\* C2 (as claimed): passphrase gating -- once u set passphrase p and created
\* the wallet with (u, p), getPrivateKey without a passphrase or with another
\* passphrase returns no key, and with p it returns the key of the creation.
C2_PassphraseGating_Claimed ==
    \A u \in Users : \A p \in Passphrases : GatedBy(u, p) => Gating(u, p)

\* C2 (amended): the same for every non-empty passphrase p.  The empty
\* string is falsy: createWalletForUser(u, "") seals under the user-id key.
C2_PassphraseGating ==
    \A u \in Users : \A p \in Passphrases \ {""} : GatedBy(u, p) => Gating(u, p)

C2_Witness ==
    /\ lastOp.op = "getPrivateKey"
    /\ lastOp.pass # Undefined /\ lastOp.pass # ""
    /\ lastOp.user \in Users
    /\ GatedBy(lastOp.user, lastOp.pass)
    /\ lastOp.ret = issued[lastOp.user].privateKey
    /\ lastOp.ret # Null

\* C3: every disclosure of key material by the export handlers is charged to
\* the limiter, so a user obtains at most maxAttempts (2) disclosures within
\* one export window (300000 ms).
C3_ExportThrottled ==
    \A u \in Users :
        /\ Len(Recent(disclosed[u], ExportAction, now))
              <= configs[ExportAction].maxAttempts
        /\ (disclosed[u] # << >>
              => /\ Key(u, ExportAction) \in DOMAIN attempts
                 /\ attempts[Key(u, ExportAction)].count >= 1)


C3_Witness ==
    \E u \in Users :
        /\ Len(disclosed[u]) >= 1
        /\ lastCheck.user = u
        /\ lastCheck.action = ExportAction
        /\ lastCheck.verdict.allowed

\* the focus key and its configuration
FocusKey == Key(focus[1], focus[2])
FocusVerdict == canPerformAction(attempts, focus[1], focus[2], now)
\* the recorded attempts made at or after time t
Since(t) == Len(SelectSeq(recorded, LAMBDA s : s >= t))

\* C4: window limit -- for an action without cooldown, under the
\* check-then-record protocol, a check is Allowed while fewer than
\* maxAttempts attempts were recorded in the window (and when there is no
\* window yet), Denied as rate limited (retry at windowStart + windowMs) for
\* the rest of the window, and Allowed again once more than windowMs has
\* passed since the window's first attempt.
C4_WindowLimit ==
    (focus[2] \in Configured /\ configs[focus[2]].cooldownMs = 0)
    => LET config == configs[focus[2]]
           v == FocusVerdict
       IN  IF FocusKey \notin DOMAIN attempts
           THEN v.allowed
           ELSE LET first == attempts[FocusKey].windowStart
                IN  /\ now - first <= config.windowMs
                         => /\ Since(first) >= 1
                            /\ recorded[Len(recorded) - Since(first) + 1] = first
                            /\ v.allowed <=> Since(first) < config.maxAttempts
                            /\ ~v.allowed => /\ v.reason = "limit"
                                             /\ v.resetTime = first + config.windowMs
                    /\ now - first > config.windowMs => v.allowed

C4_Witness ==
    /\ focus[2] \in Configured
    /\ configs[focus[2]].cooldownMs = 0
    /\ lastCheck.action = focus[2]
    /\ ~lastCheck.verdict.allowed
    /\ lastCheck.verdict.reason = "limit"
    /\ Since(attempts[FocusKey].windowStart) = configs[focus[2]].maxAttempts

C6_SlidingWindow_Claimed ==
    focus[2] \in Configured => Len(recorded) <= configs[focus[2]].maxAttempts

\* C6 (amended): fixed-window bound -- at most maxAttempts recorded attempts
\* fall into one window [windowStart, windowStart + windowMs]; an interval
\* of length windowMs holds at most 2 * maxAttempts of them, and at most
\* maxAttempts when maxAttempts * cooldownMs > windowMs.
C6_FixedWindow ==
    focus[2] \in Configured
    => LET config == configs[focus[2]]
       IN  /\ (FocusKey \in DOMAIN attempts
                 /\ now - attempts[FocusKey].windowStart <= config.windowMs)
               => Since(attempts[FocusKey].windowStart) <= config.maxAttempts
           /\ Len(recorded) <= 2 * config.maxAttempts
           /\ config.maxAttempts * config.cooldownMs > config.windowMs
               => Len(recorded) <= config.maxAttempts

\* an interval of length windowMs that straddles a reset and holds more than
\* maxAttempts attempts, the last of them just allowed
C6_Witness ==
    /\ focus[2] = "export_private_key"
    /\ Len(recorded) = configs[focus[2]].maxAttempts + 1
    /\ lastCheck.verdict.allowed
    /\ lastCheck.at = now
    /\ recorded[Len(recorded)] = now
    /\ attempts[FocusKey].windowStart > recorded[1]


\* C7: round trip without passphrase -- a wallet created by
\* createWalletForUser(u) without passphrase argument is stored with
\* hasPassphrase = false, and getPrivateKey(u) without passphrase returns
\* exactly the private key that creation returned.
C7_RoundTripNoPassphrase ==
    \A u \in Users :
        (issued[u].valid /\ issued[u].pass = Undefined)
        => /\ u \in DOMAIN wallets
           /\ wallets[u].hasPassphrase = FALSE
           /\ getPrivateKey(wallets, passphrases, u, Undefined) = issued[u].privateKey
           /\ issued[u].privateKey # Null

C7_Witness ==
    /\ lastOp.op = "getPrivateKey"
    /\ lastOp.pass = Undefined
    /\ lastOp.user \in Users
    /\ issued[lastOp.user].valid
    /\ issued[lastOp.user].pass = Undefined
    /\ lastOp.ret = issued[lastOp.user].privateKey
    /\ lastOp.ret # Null

\* C8: getMnemonic is symmetric to getPrivateKey -- whenever
\* getPrivateKey(u, p) returns the private key of u's wallet,
\* getMnemonic(u, p) returns the mnemonic that creation returned.
C8_MnemonicSymmetric ==
    \A u \in Users : \A x \in PassArgs :
        (issued[u].valid
           /\ getPrivateKey(wallets, passphrases, u, x) = issued[u].privateKey)
        => getMnemonic(wallets, passphrases, u, x) = issued[u].mnemonic

\* C9: removeWallet(u) returns true exactly when a WalletRecord of u existed;
\* afterwards u has neither WalletRecord nor PassphraseRecord, getPrivateKey
\* and getMnemonic find no wallet, verifyPassphrase is false, and a repeated
\* removeWallet(u) returns false and changes nothing.
C9_RemoveWallet ==
    [][\A u \in Users :
          RemoveWallet(u)
          => /\ lastOp'.flag = (u \in DOMAIN wallets)
             /\ u \notin DOMAIN wallets'
             /\ u \notin DOMAIN passphrases'
             /\ \A x \in PassArgs :
                   /\ getPrivateKey(wallets', passphrases', u, x) = Null
                   /\ getMnemonic(wallets', passphrases', u, x) = Null
             /\ \A p \in Passphrases : ~verifyPassphrase(passphrases', u, p)
             /\ removeWalletResult(wallets', passphrases', u) = FALSE
             /\ MapDelete(wallets', u) = wallets'
             /\ MapDelete(passphrases', u) = passphrases'
             /\ \A v \in Users \ {u} :
                   /\ (v \in DOMAIN wallets') = (v \in DOMAIN wallets)
                   /\ (v \in DOMAIN passphrases') = (v \in DOMAIN passphrases)]_vars

\* a removeWallet that deleted a wallet and a passphrase record
C9_Witness ==
    /\ lastOp.op = "removeWallet"
    /\ lastOp.flag
    /\ nonce >= 4
    /\ lastOp.user \notin DOMAIN wallets
    /\ lastOp.user \notin DOMAIN passphrases

\* C10: getPrivateKey and getMnemonic report NotFound, InvalidPassphrase and
\* DecryptionFailure as different result values -- two calls that fail for
\* different reasons never return the same value.
C10_DistinctFailures ==
    \A u1 \in Users, u2 \in Users : \A x1 \in PassArgs, x2 \in PassArgs :
        LET k1 == FailureKind(wallets, passphrases, "privateKey", u1, x1)
            k2 == FailureKind(wallets, passphrases, "privateKey", u2, x2)
            m1 == FailureKind(wallets, passphrases, "mnemonic", u1, x1)
            m2 == FailureKind(wallets, passphrases, "mnemonic", u2, x2)
        IN  /\ (k1 # "" /\ k2 # "" /\ k1 # k2)
               => getPrivateKey(wallets, passphrases, u1, x1)
                    # getPrivateKey(wallets, passphrases, u2, x2)
            /\ (m1 # "" /\ m2 # "" /\ m1 # m2)
               => getMnemonic(wallets, passphrases, u1, x1)
                    # getMnemonic(wallets, passphrases, u2, x2)

\* C11: canPerformAction is a pure read: a check leaves the attempts table
\* as it was (no entry created, reset, incremented or deleted), and the same
\* check repeated at the same time returns the same verdict.
C11_CheckIsPureRead ==
    [][Check =>
         /\ attempts' = attempts
         /\ canPerformAction(attempts', focus[1], focus[2], now')
               = lastCheck'.verdict]_vars

\* a check has just answered for an entry whose window has run out
C11_Witness ==
    /\ lastCheck.at = now
    /\ lastCheck.user = focus[1] /\ lastCheck.action = focus[2]
    /\ lastCheck.verdict.reason = "expired"
    /\ FocusKey \in DOMAIN attempts
    /\ now - attempts[FocusKey].windowStart > configs[focus[2]].windowMs

\* C12: fail open for unconfigured actions: for an action with no entry in
\* the configuration table canPerformAction answers Allowed in every
\* reachable state and at every time, and recordAttempt for it creates or
\* changes no entry.
C12_FailOpen ==
    focus[2] \notin Configured =>
        /\ \A u \in Users, k \in 0..MaxTicks :
               canPerformAction(attempts, u, focus[2], k * TickMs).allowed
        /\ recordAttempt(attempts, focus[1], focus[2], now) = attempts
        /\ \A key \in DOMAIN attempts : key[2] # focus[2]

\* recordAttempt was called twice for the unconfigured action and a check
\* at the same instant then answered Allowed
C12_Witness ==
    /\ focus[2] \notin Configured
    /\ now > 0
    /\ Len(recorded) >= 2
    /\ lastCheck.at = now /\ lastCheck.action = focus[2]
    /\ lastCheck.verdict.allowed

\* C13: passphrase store: verifyPassphrase(u, q) is false for every q while
\* u has no PassphraseRecord; right after setUserPassphrase(u, p) it is true
\* exactly for q = p (an earlier passphrase no longer verifies), and it
\* keeps its answers until the next setUserPassphrase(u, .) or
\* removeWallet(u).
C13_PassphraseStore ==
    [][\A u \in Users :
         /\ u \notin DOMAIN passphrases =>
               \A q \in Passphrases : ~verifyPassphrase(passphrases, u, q)
         /\ u \notin DOMAIN passphrases' =>
               \A q \in Passphrases : ~verifyPassphrase(passphrases', u, q)
         /\ \A p \in Passphrases :
               SetUserPassphrase(u, p) =>
                   \A q \in Passphrases :
                       verifyPassphrase(passphrases', u, q) <=> (q = p)
         /\ (~(\E p \in Passphrases : SetUserPassphrase(u, p))
                /\ ~RemoveWallet(u)) =>
               \A q \in Passphrases :
                   verifyPassphrase(passphrases', u, q)
                     <=> verifyPassphrase(passphrases, u, q)]_vars

\* a passphrase was refused for a user whose record was written after
\* another record had been written, while a different passphrase verifies
C13_Witness ==
    /\ lastOp.op = "verifyPassphrase"
    /\ ~lastOp.flag
    /\ lastOp.user \in DOMAIN passphrases
    /\ nonce >= 2
    /\ \E q \in Passphrases \ {lastOp.pass} :
          verifyPassphrase(passphrases, lastOp.user, q)

\* C14: for every stored WalletRecord, hasPassphrase is true exactly when
\* a PassphraseRecord of the user existed at the sealing and the blobs were
\* sealed with the passphrase-derived key (not the user-id fallback key);
\* a record flagged hasPassphrase is not decryptable by getPrivateKey(u)
\* called without a passphrase.
C14_FlagReflectsSealing ==
    \A u \in DOMAIN wallets :
        LET fallbackKey == scrypt(FallbackSecret(u), FallbackSalt(u), keylen)
            sealedUnderPassphrase ==
                /\ issued[u].ppSalt # Null
                /\ wallets[u].encryptedPrivateKey.key # fallbackKey
                /\ wallets[u].encryptedMnemonic.key # fallbackKey
        IN  /\ wallets[u].hasPassphrase <=> sealedUnderPassphrase
            /\ wallets[u].hasPassphrase =>
                  getPrivateKey(wallets, passphrases, u, Undefined) = Null

\* the wallet of u was sealed under a passphrase-derived key and the
\* passphrase record of u has been replaced since
Orphaned(u) ==
    /\ u \in DOMAIN wallets /\ u \in DOMAIN passphrases
    /\ issued[u].valid
    /\ Truthy(issued[u].pass)
    /\ issued[u].ppSalt # Null
    /\ passphrases[u].salt # issued[u].ppSalt

\* C15: replacing a passphrase orphans the old blobs: once the wallet of u
\* was sealed under passphrase p and setUserPassphrase(u, p') was called
\* (even with p' = p), getPrivateKey(u, x) and getMnemonic(u, x) return no
\* secret for any x (old passphrase, new passphrase, none) until the wallet
\* is removed and created again.
C15_ReplacedPassphraseOrphans ==
    \A u \in Users :
        Orphaned(u) =>
            \A x \in PassArgs :
                /\ getPrivateKey(wallets, passphrases, u, x) = Null
                /\ getMnemonic(wallets, passphrases, u, x) = Null

\* the passphrase was set again to the same value and getPrivateKey with
\* that passphrase, which verifies, has returned null
C15_Witness ==
    /\ lastOp.op = "getPrivateKey"
    /\ Orphaned(lastOp.user)
    /\ lastOp.pass = issued[lastOp.user].pass
    /\ verifyPassphrase(passphrases, lastOp.user, lastOp.pass)
    /\ lastOp.ret = Null

\* C16: no wrong plaintext: every non-failure result of getPrivateKey(u, x)
\* is the private key of the WalletRecord currently stored for u, and
\* opening a blob with another derived key, or with a salt other than the
\* one it was sealed with, fails and never yields another string.
C16_NoWrongPlaintext ==
    /\ \A u \in Users, x \in PassArgs :
          LET r == getPrivateKey(wallets, passphrases, u, x)
          IN  r # Null =>
                  /\ u \in DOMAIN wallets
                  /\ issued[u].valid
                  /\ r = issued[u].privateKey
    /\ \A w \in DOMAIN wallets, u \in Users, x \in PassArgs,
          s \in DOMAIN wallets :
          LET k == deriveKey(passphrases, u, x)
              salts == {wallets[s].salt, wallets[s].encryptedMnemonic.aad}
          IN  ~k.thrown =>
                \A blob \in {wallets[w].encryptedPrivateKey,
                              wallets[w].encryptedMnemonic},
                   salt \in salts :
                    LET o == Open(blob, k.value, salt)
                    IN  IF o.thrown THEN k.value # blob.key \/ salt # blob.aad
                        ELSE /\ o.value = blob.pt
                             /\ k.value = blob.key /\ salt = blob.aad

\* getPrivateKey has returned the key of a user for whom another
\* passphrase argument derives a different key, and so gets null
C16_Witness ==
    /\ lastOp.op = "getPrivateKey"
    /\ lastOp.ret # Null
    /\ lastOp.ret = issued[lastOp.user].privateKey
    /\ \E x \in PassArgs :
          /\ ~deriveKey(passphrases, lastOp.user, x).thrown
          /\ getPrivateKey(wallets, passphrases, lastOp.user, x) = Null

\* two verdicts agree in everything a caller sees
SameVerdict(v, w) ==
    /\ v.allowed = w.allowed
    /\ v.remainingAttempts = w.remainingAttempts
    /\ v.resetTime = w.resetTime
    /\ v.cooldownUntil = w.cooldownUntil
    /\ ~v.allowed => v.reason = w.reason

\* the verdict of the same calls made without any cleanup in between
ShadowVerdict == canPerformAction(shadow, focus[1], focus[2], now)

\* C17 as claimed: cleanup calls inserted into any sequence of
\* canPerformAction, recordAttempt and setRateLimit calls change no verdict.
C17_CleanupNeutral_Claimed == SameVerdict(FocusVerdict, ShadowVerdict)

\* C17: cleanup is outcome-neutral under the configuration built at
\* construction: while setRateLimit has not been called, cleanup calls
\* inserted at arbitrary points of a sequence of canPerformAction and
\* recordAttempt calls change no verdict, and no later recordAttempt
\* leaves another entry behind.
C17_CleanupNeutral ==
    overrides = << >> =>
        /\ SameVerdict(FocusVerdict, ShadowVerdict)
        /\ \A k \in 0..(2 * MaxTicks) :
              k * AdminTickMs >= now =>
                  LET a == recordAttempt(attempts, focus[1], focus[2],
                                         k * AdminTickMs)
                      b == recordAttempt(shadow, focus[1], focus[2],
                                         k * AdminTickMs)
                  IN  focus[2] \in Configured => a[FocusKey] = b[FocusKey]

\* cleanup has removed an entry that is still there without cleanup, and
\* a check was made afterwards
C17_Witness ==
    /\ overrides = << >>
    /\ FocusKey \in DOMAIN shadow
    /\ FocusKey \notin DOMAIN attempts
    /\ lastCheck.at = now /\ lastCheck.action = focus[2]
    /\ lastCheck.user = focus[1]

\* C19: recordAttempt(u, a) for a configured action at time now makes the
\* entry {count 1, windowStart now, lastAttempt now} when there is no entry
\* or now - windowStart > windowMs, and otherwise adds exactly 1 to count,
\* sets lastAttempt to now and keeps windowStart; no other operation
\* changes an entry (cleanup and resetUserLimits only delete), and the
\* passage of time alone changes nothing.
C19_RecordAttemptSemantics ==
    [][/\ (RecordAttempt /\ focus[2] \in Configured) =>
             LET config == configs[focus[2]]
             IN  /\ DOMAIN attempts' = DOMAIN attempts \cup {FocusKey}
                 /\ \A k \in DOMAIN attempts \ {FocusKey} :
                       attempts'[k] = attempts[k]
                 /\ attempts'[FocusKey].lastAttempt = now
                 /\ IF FocusKey \notin DOMAIN attempts
                       \/ now - attempts[FocusKey].windowStart > config.windowMs
                    THEN /\ attempts'[FocusKey].count = 1
                         /\ attempts'[FocusKey].windowStart = now
                    ELSE /\ attempts'[FocusKey].count
                              = attempts[FocusKey].count + 1
                         /\ attempts'[FocusKey].windowStart
                              = attempts[FocusKey].windowStart
       /\ ~RecordAttempt =>
             \A k \in DOMAIN attempts' :
                 k \in DOMAIN attempts /\ attempts'[k] = attempts[k]
       /\ (AdminTick \/ Check \/ \E c \in AdminConfigs : SetRateLimit(focus[2], c))
             => attempts' = attempts]_vars

\* an attempt has just been counted into a window that began earlier
C19_Witness ==
    /\ FocusKey \in DOMAIN attempts
    /\ attempts[FocusKey].count >= 2
    /\ attempts[FocusKey].windowStart < attempts[FocusKey].lastAttempt
    /\ attempts[FocusKey].lastAttempt = now
    /\ Len(recorded) >= 2 /\ recorded[Len(recorded)] = now

\* the step is made by a vault call of user u
ActsFor(u) ==
    \/ \E p \in Passphrases : SetUserPassphrase(u, p)
    \/ \E x \in PassArgs : CreateBegin(u, x)
    \/ CreateSecond(u)
    \/ CreateFinish(u)
    \/ \E x \in PassArgs : GetPrivateKey(u, x)
    \/ \E x \in PassArgs : GetMnemonic(u, x)
    \/ RemoveWallet(u)

\* the step leaves the records of v, the call v has in flight and the
\* result of every call v can make as they were
Unaffected(v) ==
    /\ (v \in DOMAIN wallets') = (v \in DOMAIN wallets)
    /\ v \in DOMAIN wallets => wallets'[v] = wallets[v]
    /\ (v \in DOMAIN passphrases') = (v \in DOMAIN passphrases)
    /\ v \in DOMAIN passphrases => passphrases'[v] = passphrases[v]
    /\ pending'[v] = pending[v]
    /\ \A x \in PassArgs :
          /\ getPrivateKey(wallets', passphrases', v, x)
                = getPrivateKey(wallets, passphrases, v, x)
          /\ getMnemonic(wallets', passphrases', v, x)
                = getMnemonic(wallets, passphrases, v, x)
          /\ verifyPassphrase(passphrases', v, x)
                = verifyPassphrase(passphrases, v, x)
          /\ deriveKey(passphrases', v, x) = deriveKey(passphrases, v, x)
          /\ removeWalletResult(wallets', passphrases', v)
                = removeWalletResult(wallets, passphrases, v)

\* C18: cross-user independence of the vault: a step of
\* createWalletForUser, setUserPassphrase, getPrivateKey, getMnemonic or
\* removeWallet for user u, in any interleaving at the await points with
\* the calls of another user v, leaves the WalletRecord and the
\* PassphraseRecord of v unchanged and changes the result of no call of v
\* (a step that writes neither table nor a call in flight changes nothing).
C18_CrossUserIndependence ==
    [][\/ (wallets' = wallets /\ passphrases' = passphrases
            /\ pending' = pending)
       \/ \A v \in Users :
             Unaffected(v) \/ \A u \in Users \ {v} : ~ActsFor(u)]_vars

\* a wallet of one user was removed while a createWalletForUser call of
\* another user, who has a passphrase, was suspended before its store
C18_Witness ==
    \E u \in Users, v \in Users :
        /\ u # v
        /\ lastOp.op = "removeWallet" /\ lastOp.user = u
        /\ pending[v].stage = 2
        /\ v \in DOMAIN passphrases

\* C20: in executeWriteWithLimits an attempt is charged only for a request
\* whose gated action was performed: a write request that the limiter
\* denies, that finds no wallet, or whose relay call fails has not changed
\* the (user, action) entry.
C20_ChargedOnlySuccess ==
    lastWrite.outcome \in {"denied", "nowallet", "relayfail"}
        => ~lastWrite.charged

\* C21: no check-then-record race in the write path: with several write
\* requests of the same user and action in flight and interleaving at
\* their await points, the relay calls started in one window of the
\* limiter are the attempts counted in it and never exceed maxAttempts.
C21_NoWriteRace ==
    (FocusKey \in DOMAIN attempts
       /\ now - attempts[FocusKey].windowStart <= configs[focus[2]].windowMs) =>
        /\ Since(attempts[FocusKey].windowStart) = attempts[FocusKey].count
        /\ Since(attempts[FocusKey].windowStart) <= configs[focus[2]].maxAttempts

\* two relay calls are in flight, they fill the window, and a third
\* request has just been denied for the limit
C21_Witness ==
    /\ Len(inflight) = 2
    /\ lastWrite.outcome = "denied"
    /\ lastCheck.at = now /\ lastCheck.verdict.reason = "limit"
    /\ attempts[FocusKey].count = configs[focus[2]].maxAttempts

\* the instants from which an entry can deny no more: the clock exceeds
\* both windowStart + windowMs and lastAttempt + cooldownMs
Recovered(t) ==
    /\ t >= now
    /\ t > attempts[FocusKey].windowStart + configs[focus[2]].windowMs
    /\ t > attempts[FocusKey].lastAttempt + configs[focus[2]].cooldownMs

\* C22: every denial is recoverable: in every reachable limiter state, if
\* no further recordAttempt is made for (u, a), canPerformAction(u, a) is
\* Allowed at every time that exceeds both windowStart + windowMs and
\* lastAttempt + cooldownMs, and such a time exists: no state denies
\* (u, a) forever.
C22_DenialRecoverable ==
    IF focus[2] \in Configured /\ FocusKey \in DOMAIN attempts
    THEN /\ \A k \in 0..(2 * MaxTicks) :
               Recovered(k * TickMs) =>
                   canPerformAction(attempts, focus[1], focus[2],
                                    k * TickMs).allowed
         /\ \E k \in 0..(2 * MaxTicks) : Recovered(k * TickMs)
    ELSE \A k \in 0..(2 * MaxTicks) :
             canPerformAction(attempts, focus[1], focus[2], k * TickMs).allowed

\* a check has just been denied for the limit while the count stands
\* above maxAttempts
C22_Witness ==
    /\ focus[2] \in Configured /\ FocusKey \in DOMAIN attempts
    /\ lastCheck.at = now /\ ~lastCheck.verdict.allowed
    /\ lastCheck.verdict.reason = "limit"
    /\ attempts[FocusKey].count > configs[focus[2]].maxAttempts

\* the window of the entry under key k has elapsed and so has its
\* cooldown, if its action defines one
Elapsed(k) ==
    LET limit == attempts[k]
        config == configs[limit.action]
    IN  /\ now - limit.windowStart > config.windowMs
        /\ config.cooldownMs # 0 => now - limit.lastAttempt > config.cooldownMs

\* C23: cleanup at time now removes exactly the entries whose window has
\* elapsed and whose cooldown, if the action defines one, has elapsed too;
\* it removes no entry for which canPerformAction would return Denied at
\* that moment and leaves every other entry unchanged.
C23_CleanupExact ==
    [][Cleanup =>
         /\ DOMAIN attempts' \subseteq DOMAIN attempts
         /\ \A k \in DOMAIN attempts :
               /\ k \notin DOMAIN attempts' <=> Elapsed(k)
               /\ k \in DOMAIN attempts' => attempts'[k] = attempts[k]
               /\ k \notin DOMAIN attempts' =>
                     canPerformAction(attempts, k[1], k[2], now).allowed]_vars

\* cleanup has removed an entry of an action with a cooldown, whose window
\* and cooldown were both over
C23_Witness ==
    /\ FocusKey \in DOMAIN shadow
    /\ FocusKey \notin DOMAIN attempts
    /\ focus[2] \in Configured
    /\ configs[focus[2]].cooldownMs # 0
    /\ now - shadow[FocusKey].windowStart > configs[focus[2]].windowMs
    /\ now - shadow[FocusKey].lastAttempt > configs[focus[2]].cooldownMs

\* createWalletForUser(u, p) has rejected with 'Invalid passphrase' and
\* left both tables as they were
RejectedUntouched(u, p) ==
    /\ lastOp'.thrown
    /\ deriveKey(passphrases, u, p) = Thrown("Invalid passphrase")
    /\ wallets' = wallets
    /\ passphrases' = passphrases

\* C24 as claimed: createWalletForUser(u, p), when a PassphraseRecord
\* exists for u and p fails verification, rejects with 'Invalid passphrase'
\* and leaves the wallets and passphrases tables as they were.
C24_RejectsUnverified_Claimed ==
    [][lastOp'.op = "createWalletForUser" =>
         \A u \in Users : \A p \in Passphrases :
            (/\ u \in DOMAIN passphrases
             /\ ~verifyPassphrase(passphrases, u, p)
             /\ CreateWalletForUser(u, p)) => RejectedUntouched(u, p)]_vars

\* C24: createWalletForUser(u, p) with a non-empty p, when a
\* PassphraseRecord exists for u and p fails verification, rejects with
\* 'Invalid passphrase' and leaves the wallets and passphrases tables as
\* they were; the empty passphrase is not verified and the wallet is stored.
C24_RejectsUnverified ==
    [][lastOp'.op = "createWalletForUser" =>
         \A u \in Users : \A p \in Passphrases :
            (/\ u \in DOMAIN passphrases
             /\ ~verifyPassphrase(passphrases, u, p)
             /\ CreateWalletForUser(u, p)) =>
                IF p # "" THEN RejectedUntouched(u, p)
                ELSE ~lastOp'.thrown /\ u \in DOMAIN wallets'
                     /\ ~wallets'[u].hasPassphrase]_vars

\* a creation with a wrong non-empty passphrase has just been rejected for
\* a user with a passphrase record and no wallet
C24_Witness ==
    /\ lastOp.op = "createWalletForUser"
    /\ lastOp.thrown
    /\ lastOp.pass \in Passphrases \ {""}
    /\ lastOp.user \in DOMAIN passphrases
    /\ ~verifyPassphrase(passphrases, lastOp.user, lastOp.pass)
    /\ lastOp.user \notin DOMAIN wallets

\* the salts a caller can hand to decryptPrivateKey: those of the sealings
\* of the run, the next one, and the salts of key derivation
KnownSalts ==
    {RandomBytes(i) : i \in 0..(MaxNonce + 1)}
        \cup {FallbackSalt(u) : u \in Users}

\* the secrets sealed in the run and the next ones generated
Plaintexts ==
    {generateWallet(i).privateKey : i \in {1, nonce + 1}}
        \cup {generateWallet(i).mnemonic : i \in {1, nonce + 1}}

\* C25: seal/open round trip with salt binding -- in every passphrase
\* state, a blob that encryptPrivateKey(P, u, p) returns with its salt is
\* decrypted to P by decryptPrivateKey(blob, salt, u, p), and decryption
\* with any other salt fails; in particular no stored blob opens with a
\* salt that is not the one of its own sealing.
C25_SealOpenRoundTrip ==
    \A u \in Users : \A p \in PassArgs :
        /\ \A P \in Plaintexts :
              LET e == encryptPrivateKey(passphrases, P, u, p, nonce + 1)
              IN  ~e.thrown =>
                    /\ decryptPrivateKey(passphrases, e.encrypted, e.salt, u, p)
                          = Returned(P)
                    /\ \A s \in KnownSalts \ {e.salt} :
                          decryptPrivateKey(passphrases, e.encrypted, s, u, p).thrown
        /\ u \in DOMAIN wallets =>
              \A blob \in {wallets[u].encryptedPrivateKey,
                           wallets[u].encryptedMnemonic} :
                 \A s \in KnownSalts \ {blob.aad} :
                    decryptPrivateKey(passphrases, blob, s, u, p).thrown

\* a getMnemonic call has just failed although the key was the one of the
\* sealing: the stored salt is the salt of the private key sealing, with
\* which the private key blob opens and the mnemonic blob does not
C25_Witness ==
    /\ lastOp.op = "getMnemonic"
    /\ lastOp.ret = Null
    /\ lastOp.user \in DOMAIN wallets
    /\ LET u == lastOp.user
           w == wallets[u]
       IN  /\ decryptPrivateKey(passphrases, w.encryptedPrivateKey, w.salt,
                                u, lastOp.pass) = Returned(issued[u].privateKey)
           /\ decryptPrivateKey(passphrases, w.encryptedMnemonic, w.salt,
                                u, lastOp.pass).thrown
           /\ decryptPrivateKey(passphrases, w.encryptedMnemonic,
                                w.encryptedMnemonic.aad, u, lastOp.pass)
                 = Returned(issued[u].mnemonic)

\* C26: fallback tier -- while no PassphraseRecord exists for u, the key
\* derived for u is a function of the user id alone, whatever the
\* passphrase argument, and for a wallet created in that state
\* getPrivateKey(u, x) returns the private key for every x, a passphrase
\* never set included.
C26_FallbackTier ==
    \A u \in Users :
        u \notin DOMAIN passphrases =>
            /\ \A x \in PassArgs :
                  deriveKey(passphrases, u, x)
                    = Returned(scrypt(FallbackSecret(u), FallbackSalt(u), keylen))
            /\ (u \in DOMAIN wallets /\ issued[u].valid) =>
                  /\ issued[u].ppSalt = Null
                  /\ wallets[u].encryptedPrivateKey.key
                        = scrypt(FallbackSecret(u), FallbackSalt(u), keylen)
                  /\ \A x \in PassArgs :
                        getPrivateKey(wallets, passphrases, u, x)
                          = issued[u].privateKey

\* a wallet created with one passphrase argument while nobody had a
\* passphrase record has just given its private key to getPrivateKey
\* called with another passphrase
C26_Witness ==
    /\ passphrases = << >>
    /\ lastOp.op = "getPrivateKey"
    /\ lastOp.user \in DOMAIN wallets
    /\ issued[lastOp.user].valid
    /\ Truthy(issued[lastOp.user].pass)
    /\ Truthy(lastOp.pass)
    /\ lastOp.pass # issued[lastOp.user].pass
    /\ lastOp.ret = issued[lastOp.user].privateKey

\* C27: hasPassphrase(u) reports whether the user has set a passphrase --
\* after a successful setUserPassphrase(u, p) and before removeWallet(u),
\* hasPassphrase(u) returns true, whether or not a wallet exists for u and
\* whenever it was created.
C27_HasPassphraseReportsRecord ==
    \A u \in DOMAIN passphrases : hasPassphrase(wallets, u)

\* C28: removeWallet(u) returns false only when nothing was deleted --
\* whenever the call deletes a WalletRecord or a PassphraseRecord of u
\* (a user who set a passphrase and never created a wallet, say) it
\* returns true.
C28_FalseOnlyIfNothingDeleted ==
    [][lastOp'.op = "removeWallet" =>
         \A u \in Users :
            (RemoveWallet(u) /\ ~lastOp'.flag) =>
                wallets' = wallets /\ passphrases' = passphrases]_vars

\* a step of one of the operations that create no wallet
NonCreating ==
    \/ /\ lastOp'.op = "setUserPassphrase"
       /\ \E u \in Users, p \in Passphrases : SetUserPassphrase(u, p)
    \/ /\ lastOp'.op = "verifyPassphrase"
       /\ \E u \in Users, p \in Passphrases : VerifyPassphrase(u, p)
    \/ /\ lastOp'.op = "getPrivateKey"
       /\ \E u \in Users, x \in PassArgs : GetPrivateKey(u, x)
    \/ /\ lastOp'.op = "getMnemonic"
       /\ \E u \in Users, x \in PassArgs : GetMnemonic(u, x)
    \/ /\ lastOp'.op = "getUserWallet"
       /\ \E u \in Users : GetUserWallet(u)
    \/ /\ lastOp'.op = "hasWallet"
       /\ \E u \in Users : HasWallet(u)
    \/ /\ lastOp'.op = "hasPassphrase"
       /\ \E u \in Users : HasPassphrase(u)
    \/ /\ lastOp'.op = "getStats"
       /\ GetStats

\* C29: a WalletRecord is never mutated by the non-creating operations --
\* setUserPassphrase, verifyPassphrase, getPrivateKey, getMnemonic,
\* getUserWallet, hasWallet, hasPassphrase and getStats leave every stored
\* WalletRecord (address, both blobs, salt, kdfParams, hasPassphrase,
\* userId) unchanged, also when they fail.
C29_WalletRecordImmutable ==
    [][NonCreating
          => /\ DOMAIN wallets' = DOMAIN wallets
             /\ \A u \in DOMAIN wallets : wallets'[u] = wallets[u]]_vars

\* setUserPassphrase has just been called for a user with a wallet created
\* without passphrase, and hasPassphrase of the record is still false
C29_Witness ==
    /\ lastOp.op = "setUserPassphrase"
    /\ lastOp.user \in DOMAIN wallets
    /\ lastOp.user \in DOMAIN passphrases
    /\ ~issued[lastOp.user].pass \in Passphrases
    /\ ~wallets[lastOp.user].hasPassphrase
    /\ getUserWallet(wallets, lastOp.user).salt
          = wallets[lastOp.user].encryptedPrivateKey.aad

\* the retry instant a denial reports
RetryInstant(v) == IF v.reason = "cooldown" THEN v.cooldownUntil ELSE v.resetTime

\* C30: the retry time of a denial is honest -- whenever
\* canPerformAction(u, a) denies at time now and reports a retry instant T
\* (cooldownUntil for a cooldown denial, resetTime for a rate-limit
\* denial), T >= now and a canPerformAction(u, a) made at time T with no
\* recordAttempt in between is no longer denied for that same reason.
C30_RetryTimeHonest ==
    ~FocusVerdict.allowed =>
        LET T == RetryInstant(FocusVerdict)
            later == canPerformAction(attempts, focus[1], focus[2], T)
        IN  /\ T >= now
            /\ later.allowed \/ later.reason # FocusVerdict.reason

SameEntry(k) ==
    /\ k \in DOMAIN attempts' <=> k \in DOMAIN attempts
    /\ k \in DOMAIN attempts => attempts'[k] = attempts[k]

\* the verdict of canPerformAction(v, b) is the same before and after
SameVerdictFor(v, b) ==
    canPerformAction(attempts', v, b, now') = canPerformAction(attempts, v, b, now)

\* canPerformAction(u, a) after the step finds no entry
Fresh(u, a) ==
    canPerformAction(attempts', u, a, now')
      = Verdict(TRUE, "first", configs[a].maxAttempts - 1,
                now' + configs[a].windowMs, -1)

\* C32: per-key independence of the limiter -- recordAttempt(u, a) changes
\* only the entry of (u, a), and resetUserLimits(u) deletes every entry of
\* u and only those; after either, the verdict of canPerformAction(v, b)
\* for every other pair (v, b) is unchanged, and after resetUserLimits(u)
\* every configured action of u is Fresh (Allowed with remainingAttempts =
\* maxAttempts - 1).
C32_PerKeyIndependence ==
    [][/\ \A u \in Users : \A a \in KeyActions :
            RecordFor(u, a) =>
                \A v \in Users : \A b \in Actions :
                    Key(v, b) # Key(u, a) =>
                        SameEntry(Key(v, b)) /\ SameVerdictFor(v, b)
       /\ \A u \in Users :
            ResetUserLimits(u) =>
                /\ \A a \in Actions : Key(u, a) \notin DOMAIN attempts'
                /\ \A a \in Configured : Fresh(u, a)
                /\ \A v \in Users \ {u} : \A b \in Actions :
                        SameEntry(Key(v, b)) /\ SameVerdictFor(v, b)]_vars

\* resetUserLimits has removed the entries of a user whose attempts were
\* recorded in a window that is still running, and an action of the other
\* user is still denied
C32_Witness ==
    /\ recorded # << >>
    /\ now <= configs[focus[2]].windowMs
    /\ \A a \in Actions : Key(focus[1], a) \notin DOMAIN attempts
    /\ \E k \in DOMAIN attempts :
          /\ k[1] # focus[1]
          /\ ~canPerformAction(attempts, k[1], k[2], now).allowed

\* C33: under the check-then-record protocol (recordAttempt(u, a) is called
\* only at a time at which canPerformAction(u, a) returns Allowed) and a
\* fixed configuration, every entry has count <= maxAttempts in every
\* reachable state, for actions with and without cooldown.
C33_CountWithinLimit ==
    \A k \in DOMAIN attempts :
        /\ attempts[k].action \in Configured
        /\ attempts[k].count <= configs[attempts[k].action].maxAttempts

\* an action with a cooldown has its count at maxAttempts, the cooldown is
\* over and the check has just been denied for the limit
C33_Witness ==
    /\ FocusKey \in DOMAIN attempts
    /\ configs[focus[2]].cooldownMs # 0
    /\ attempts[FocusKey].count = configs[focus[2]].maxAttempts
    /\ lastCheck.at = now
    /\ lastCheck.user = focus[1]
    /\ lastCheck.verdict.reason = "limit"
    /\ now >= attempts[FocusKey].lastAttempt + configs[focus[2]].cooldownMs

\* C34: well-formed entries -- with a non-decreasing clock and a fixed
\* configuration, every entry of the attempts table is stored under the
\* key of its own (userId, action), belongs to a configured action, and
\* has count >= 1 and windowStart <= lastAttempt <= windowStart + windowMs,
\* after any sequence of recordAttempt, cleanup and resetUserLimits calls.
C34_WellFormedEntries ==
    \A k \in DOMAIN attempts :
        LET limit == attempts[k]
        IN  /\ k = Key(limit.userId, limit.action)
            /\ limit.action \in Configured
            /\ limit.count >= 1
            /\ limit.windowStart <= limit.lastAttempt
            /\ limit.lastAttempt
                  <= limit.windowStart + configs[limit.action].windowMs
            /\ limit.lastAttempt <= now

\* an entry whose last attempt fell on the last instant of its window is
\* in the table after cleanup has removed another entry
C34_Witness ==
    /\ \E k \in DOMAIN attempts :
          /\ attempts[k].count >= 2
          /\ attempts[k].lastAttempt
                = attempts[k].windowStart + configs[k[2]].windowMs
    /\ \E k \in DOMAIN shadow : k \notin DOMAIN attempts

\* getStatus of the focus key
FocusStatus == getStatus(attempts, focus[1], focus[2])

\* C35: the remaining-attempts figure is consistent with the counter -- if
\* canPerformAction(u, a) at time t returns Allowed with remainingAttempts
\* = r and recordAttempt(u, a) is called at the same time t, then
\* afterwards getStatus(u, a).currentCount = maxAttempts - r, and r >= 0,
\* in the Fresh, expired-window and within-window cases alike.
C35_RemainingConsistent ==
    [][(Request /\ focus[2] \in Configured /\ lastCheck'.verdict.allowed) =>
          LET r == lastCheck'.verdict.remainingAttempts
              s == getStatus(attempts', focus[1], focus[2])
          IN  /\ lastCheck'.verdict.reason \in {"first", "expired", "within"}
              /\ s.hasLimit
              /\ s.maxAttempts = configs[focus[2]].maxAttempts
              /\ s.currentCount = s.maxAttempts - r
              /\ s.lastAttempt = now
              /\ r >= 0]_vars

\* a request inside a running window has just been allowed and recorded,
\* and the status shows the count the check announced
C35_Witness ==
    /\ lastCheck.at = now
    /\ lastCheck.user = focus[1]
    /\ lastCheck.verdict.reason = "within"
    /\ FocusStatus.lastAttempt = now
    /\ FocusStatus.currentCount >= 2
    /\ FocusStatus.currentCount
          = FocusStatus.maxAttempts - lastCheck.verdict.remainingAttempts

\* C36: blob-pair consistency under interleaving -- for every stored
\* WalletRecord the private-key blob and the mnemonic blob were sealed
\* under the same derived key, so getPrivateKey(u, x) succeeds exactly when
\* getMnemonic(u, x) would succeed on key grounds, even when
\* setUserPassphrase(u, .) interleaves with createWalletForUser(u, .) at
\* its await points between the two sealing steps.
C36_BlobPairConsistent ==
    \A u \in DOMAIN wallets :
        /\ wallets[u].encryptedPrivateKey.key = wallets[u].encryptedMnemonic.key
        /\ \A x \in PassArgs :
              LET k == deriveKey(passphrases, u, x)
              IN  ~k.thrown =>
                    (k.value = wallets[u].encryptedPrivateKey.key
                       <=> k.value = wallets[u].encryptedMnemonic.key)

=============================================================================
